---- MODULE Spec2Model ----
(***************************************************************************)
(* Model of the vehicle-record validation pipeline of src/main.py:        *)
(* run() reads a line-delimited JSON file, and per line decodes the row,  *)
(* applies check_schema, null_check and transform_address, prints an OK   *)
(* or an ERROR line, tallies the outcome and finally prints a summary.    *)
(*                                                                         *)
(* Text is a sequence of one-character strings, so that the address       *)
(* pattern, strip() and replace() are computed character by character.    *)
(* A JSON value is a tagged record: Null, Num(n), Str(s), List(l),        *)
(* Dict(d) with d a function from key names to JSON values.               *)
(***************************************************************************)
EXTENDS Integers, Sequences, FiniteSets, TLC

VARIABLES file, print_lines, pos, pc, line_num, ok_count, reject_count, row, err, out

vars == <<file, print_lines, pos, pc, line_num, ok_count, reject_count, row, err, out>>

---------------------------------------------------------------------------
(* Characters and character classes of the address pattern.               *)

Lower == {"a","b","c","d","e","f","g","h","i","j","k","l","m",
          "n","o","p","q","r","s","t","u","v","w","x","y","z"}

Upper == {"A","B","C","D","E","F","G","H","I","J","K","L","M",
          "N","O","P","Q","R","S","T","U","V","W","X","Y","Z"}

Digit == {"0","1","2","3","4","5","6","7","8","9"}

\* [a-zA-Z0-9 .]
StreetClass == Lower \cup Upper \cup Digit \cup {" ", "."}

\* [a-zA-Z0-9 ]
CityClass == Lower \cup Upper \cup Digit \cup {" "}

\* {2} of the state group and {5} of the zip group
StateLen == 2

ZipLen == 5

\* the characters str.strip() removes from both ends
Whitespace == {" ", "\n", "\t", "\r"}

---------------------------------------------------------------------------
(* JSON values and the local variable row.                                *)

Null == [t |-> "null"]

Num(n) == [t |-> "num", n |-> n]

Str(s) == [t |-> "str", s |-> s]

List(l) == [t |-> "list", l |-> l]

Dict(d) == [t |-> "dict", d |-> d]

\* the local name row before its first assignment
Unbound == [t |-> "unbound"]

\* no exception caught in the iteration
NoErr == [type |-> "none", arg |-> ""]

Exc(type, arg) == [type |-> type, arg |-> arg]

\* a text as one string
RECURSIVE Join(_)
Join(s) == IF s = <<>> THEN "" ELSE Head(s) \o Join(Tail(s))

\* the characters of a field name that the model's texts can hold
Chars(name) ==
    CASE name = "license_plate" -> <<"l","i","c","e","n","s","e","_","p","l","a","t","e">>
      [] name = "make_model" -> <<"m","a","k","e","_","m","o","d","e","l">>
      [] name = "year" -> <<"y","e","a","r">>
      [] name = "registered_name" ->
            <<"r","e","g","i","s","t","e","r","e","d","_","n","a","m","e">>
      [] name = "registered_address" ->
            <<"r","e","g","i","s","t","e","r","e","d","_","a","d","d","r","e","s","s">>
      [] name = "registered_date" ->
            <<"r","e","g","i","s","t","e","r","e","d","_","d","a","t","e">>

---------------------------------------------------------------------------
(* transform_address                                                       *)

\* the length of the longest run of characters of class cls in s from index i
RECURSIVE Run(_, _, _)
Run(s, i, cls) ==
    IF i <= Len(s) /\ s[i] \in cls THEN 1 + Run(s, i + 1, cls) ELSE 0

\* s[i .. i+n-1] lies in s and is all of class cls
Exactly(s, i, n, cls) ==
    /\ i + n - 1 <= Len(s)
    /\ \A k \in i .. (i + n - 1) : s[k] \in cls

At(s, i, c) == i <= Len(s) /\ s[i] = c

\* pattern.match(s): anchored at the start, free at the end.  No group can
\* give characters back: the character after each + group is outside its class.
AddressMatch(s) ==
    LET a  == Run(s, 1, StreetClass)
        c0 == a + 2
        b  == Run(s, c0, CityClass)
        s0 == c0 + b + 2
        z0 == s0 + StateLen + 1
    IN  IF /\ a >= 1
           /\ At(s, a + 1, "\n")
           /\ b >= 1
           /\ At(s, c0 + b, ",")
           /\ At(s, c0 + b + 1, " ")
           /\ Exactly(s, s0, StateLen, Upper)
           /\ At(s, s0 + StateLen, " ")
           /\ Exactly(s, z0, ZipLen, Digit)
        THEN [ok |-> TRUE,
              street_address |-> SubSeq(s, 1, a),
              city |-> SubSeq(s, c0, c0 + b - 1),
              state |-> SubSeq(s, s0, s0 + StateLen - 1),
              zip |-> SubSeq(s, z0, z0 + ZipLen - 1)]
        ELSE [ok |-> FALSE]

RECURSIVE LStrip(_)
LStrip(s) == IF s # <<>> /\ Head(s) \in Whitespace THEN LStrip(Tail(s)) ELSE s

RECURSIVE RStrip(_)
RStrip(s) ==
    IF s # <<>> /\ s[Len(s)] \in Whitespace THEN RStrip(SubSeq(s, 1, Len(s) - 1)) ELSE s

\* str.strip()
Strip(s) == RStrip(LStrip(s))

\* str.replace("\n", ", ")
RECURSIVE ReplaceNewlines(_)
ReplaceNewlines(s) ==
    IF s = <<>> THEN <<>>
    ELSE (IF Head(s) = "\n" THEN <<",", " ">> ELSE <<Head(s)>>) \o ReplaceNewlines(Tail(s))

\* d with key k set to v
SetKey(d, k, v) == [x \in DOMAIN d \cup {k} |-> IF x = k THEN v ELSE d[x]]

\* del d[k]
DelKey(d, k) == [x \in DOMAIN d \ {k} |-> d[x]]

\* `row[field]`: the value, or the exception the subscript raises
Subscript(r, field) ==
    CASE r.t = "dict" ->
            IF field \in DOMAIN r.d THEN [ok |-> TRUE, v |-> r.d[field], err |-> NoErr]
            ELSE [ok |-> FALSE, v |-> Null, err |-> Exc("KeyError", field)]
      [] r.t = "list" ->
            [ok |-> FALSE, v |-> Null,
             err |-> Exc("TypeError", "list indices must be integers or slices, not str")]
      [] OTHER ->
            [ok |-> FALSE, v |-> Null, err |-> Exc("TypeError", "object is not subscriptable")]

\* the four assignments without the del
SplitAddressKeep(d, m) ==
    SetKey(SetKey(SetKey(SetKey(d,
        "street_address", Str(m.street_address)),
        "city", Str(m.city)),
        "state", Str(m.state)),
        "zip", Str(m.zip))

\* the four assignments and the del of a successful match
SplitAddress(d, m) ==
    DelKey(SetKey(SetKey(SetKey(SetKey(d,
        "street_address", Str(m.street_address)),
        "city", Str(m.city)),
        "state", Str(m.state)),
        "zip", Str(m.zip)),
        "registered_address")

\* transform_address(row): the row it leaves and the exception it raises, if
\* any.  pattern.match raises TypeError for a value that is no text.
transform_address(r) ==
    LET a == Subscript(r, "registered_address")
    IN  IF ~a.ok THEN [ok |-> FALSE, row |-> r, err |-> a.err]
        ELSE IF a.v.t # "str"
        THEN [ok |-> FALSE, row |-> r,
              err |-> Exc("TypeError", "expected string or bytes-like object")]
        ELSE LET m == AddressMatch(a.v.s)
             IN  IF m.ok
                 THEN [ok |-> TRUE, row |-> Dict(SplitAddress(r.d, m)), err |-> NoErr]
                 ELSE [ok |-> FALSE, row |-> r,
                       err |-> Exc("ValueError",
                                   "Unknown address format: "
                                       \o Join(ReplaceNewlines(Strip(a.v.s))))]

---------------------------------------------------------------------------
(* check_schema and null_check                                            *)

\* VALID_FIELDS, in its declared order
VALID_FIELDS == <<"license_plate", "make_model", "year",
                  "registered_name", "registered_address", "registered_date">>

\* `field in row`: for a dict its keys, for a list its items; a number or None
\* is not iterable
Contains(r, field) ==
    CASE r.t = "dict" -> IF field \in DOMAIN r.d THEN "yes" ELSE "no"
      [] r.t = "list" ->
            IF \E i \in 1 .. Len(r.l) : r.l[i] = Str(Chars(field)) THEN "yes" ELSE "no"
      [] OTHER -> "TypeError"

\* a check_schema that visits the fields last to first
RECURSIVE check_schema_reversed(_, _)
check_schema_reversed(r, fields) ==
    IF fields = <<>> THEN [ok |-> TRUE, err |-> NoErr]
    ELSE LET field == fields[Len(fields)]
             in == Contains(r, field)
         IN  IF in = "TypeError"
             THEN [ok |-> FALSE, err |-> Exc("TypeError", "argument is not iterable")]
             ELSE IF in = "no"
             THEN [ok |-> FALSE,
                   err |-> Exc("KeyError", "Missing required field: " \o field)]
             ELSE check_schema_reversed(r, SubSeq(fields, 1, Len(fields) - 1))

\* the for loop of check_schema over the fields not yet visited
RECURSIVE check_schema(_, _)
check_schema(r, fields) ==
    IF fields = <<>> THEN [ok |-> TRUE, err |-> NoErr]
    ELSE LET field == Head(fields)
             in == Contains(r, field)
         IN  IF in = "TypeError"
             THEN [ok |-> FALSE, err |-> Exc("TypeError", "argument is not iterable")]
             ELSE IF in = "no"
             THEN [ok |-> FALSE,
                   err |-> Exc("KeyError", "Missing required field: " \o field)]
             ELSE check_schema(r, Tail(fields))

\* a null_check that visits the fields last to first
RECURSIVE null_check_reversed(_, _)
null_check_reversed(r, fields) ==
    IF fields = <<>> THEN [ok |-> TRUE, err |-> NoErr]
    ELSE LET field == fields[Len(fields)]
             x == Subscript(r, field)
         IN  IF ~x.ok THEN [ok |-> FALSE, err |-> x.err]
             ELSE IF x.v = Null
             THEN [ok |-> FALSE, err |-> Exc("ValueError", field \o " cannot be Null.")]
             ELSE null_check_reversed(r, SubSeq(fields, 1, Len(fields) - 1))

\* a null_check whose test never fires
null_check_never(r, fields) == [ok |-> TRUE, err |-> NoErr]

\* the for loop of null_check over the fields not yet visited
RECURSIVE null_check(_, _)
null_check(r, fields) ==
    IF fields = <<>> THEN [ok |-> TRUE, err |-> NoErr]
    ELSE LET field == Head(fields)
             x == Subscript(r, field)
         IN  IF ~x.ok THEN [ok |-> FALSE, err |-> x.err]
             ELSE IF x.v = Null
             THEN [ok |-> FALSE, err |-> Exc("ValueError", field \o " cannot be Null.")]
             ELSE null_check(r, Tail(fields))

---------------------------------------------------------------------------
(* run                                                                     *)

\* An input line either is a JSON text, given by the value it decodes to, or
\* is not (a blank line, a truncated object, free text).
JsonLine(v) == [json |-> TRUE, v |-> v]

BadLine == [json |-> FALSE, v |-> Null]

\* json.loads(line.strip())
json_loads(line) ==
    IF line.json THEN [ok |-> TRUE, v |-> line.v, err |-> NoErr]
    ELSE [ok |-> FALSE, v |-> Null,
          err |-> Exc("JSONDecodeError", "Expecting value: line 1 column 1 (char 0)")]

\* str(err): a KeyError shows the repr of its argument, quotes included
StrOfErr(e) == IF e.type = "KeyError" THEN "'" \o e.arg \o "'" ELSE e.arg

\* the decimal digits of n >= 0
RECURSIVE Dec(_)
Dec(n) ==
    LET d == <<"0","1","2","3","4","5","6","7","8","9">>[(n % 10) + 1]
    IN  IF n < 10 THEN <<d>> ELSE Append(Dec(n \div 10), d)

\* the width of the 04d format
PadWidth == 4

RECURSIVE ZeroPad(_)
ZeroPad(ds) == IF Len(ds) >= PadWidth THEN ds ELSE ZeroPad(<<"0">> \o ds)

\* f"{n:04d}"
Fmt04(n) == ZeroPad(Dec(n))

\* the statements of the try block up to the first exception: whether all ran,
\* what row is bound to afterwards, and the exception
TryBody(line, r0) ==
    LET j == json_loads(line)
    IN  IF ~j.ok THEN [ok |-> FALSE, row |-> r0, err |-> j.err]
        ELSE LET c == check_schema(j.v, VALID_FIELDS)
             IN  IF ~c.ok THEN [ok |-> FALSE, row |-> j.v, err |-> c.err]
                 ELSE LET n == null_check(j.v, VALID_FIELDS)
                      IN  IF ~n.ok THEN [ok |-> FALSE, row |-> j.v, err |-> n.err]
                          ELSE transform_address(j.v)

\* line_num of the first line
FirstLineNum == 1

\* an increment placed at the end of the try block instead of in finally
LineNumAfterTryOnly(n, res) == IF res.ok THEN n + 1 ELSE n

\* finally: line_num += 1
LineNumAfter(n, res) == n + 1

OkLine(n, r) == [kind |-> "OK", num |-> Fmt04(n), msg |-> "", data |-> r]

ErrorLine(n, e, r) == [kind |-> "ERROR", num |-> Fmt04(n), msg |-> StrOfErr(e), data |-> r]

ReadLine(n) == [kind |-> "READ", num |-> Dec(n), msg |-> "", data |-> Null]

TallyLine(a, b) == [kind |-> "TALLY", num |-> Fmt04(a), msg |-> Join(Fmt04(b)), data |-> Null]

\* One iteration of `for line in json_file`: the try block, the except clause
\* (whose f-string reads row, and raises UnboundLocalError before anything is
\* printed when row was never bound) and the finally clause.
ProcessLine ==
    /\ pc = "loop"
    /\ pos < Len(file)
    /\ LET res == TryBody(file[pos + 1], row)
       IN  /\ pos' = pos + 1
           /\ row' = res.row
           /\ err' = res.err
           /\ line_num' = LineNumAfter(line_num, res)
           /\ IF res.ok
              THEN /\ out' = IF print_lines THEN Append(out, OkLine(line_num, res.row))
                                            ELSE out
                   /\ ok_count' = ok_count + 1
                   /\ UNCHANGED <<reject_count, pc>>
              ELSE IF res.row = Unbound
              THEN /\ pc' = "aborted"
                   /\ UNCHANGED <<out, ok_count, reject_count>>
              ELSE /\ out' = Append(out, ErrorLine(line_num, res.err, res.row))
                   /\ reject_count' = reject_count + 1
                   /\ UNCHANGED <<ok_count, pc>>
    /\ UNCHANGED <<file, print_lines>>

\* the two prints after the loop
Summary ==
    /\ pc = "loop"
    /\ pos = Len(file)
    /\ out' = out \o <<ReadLine(line_num - 1), TallyLine(ok_count, reject_count)>>
    /\ pc' = "done"
    /\ UNCHANGED <<file, print_lines, pos, line_num, ok_count, reject_count, row, err>>

---------------------------------------------------------------------------
(* Input files.                                                            *)

\* the longest file of the exhaustive part of the input space
MaxLines == 3

NL == <<"\n">>

GoodAddress == <<"1"," ","M",".">> \o NL \o <<"S"," ","p",","," ","I","L"," ","0","6","2","7","0">>

\* Address texts: every combination of a lead, a street, a separator, a city
\* with its comma, a state, a postal code and a trail, and the empty text.
AddressTexts ==
    { lead \o street \o sep \o city \o state \o <<" ">> \o zip \o trail :
        lead \in {<<>>, <<"\n">>, <<" ">>},
        street \in {<<"1"," ","M",".">>, <<"1","#">>},
        sep \in {NL, <<",", " ">>, NL \o NL},
        city \in {<<"S"," ","p",","," ">>, <<"S",".",","," ">>, <<"S"," ","p",",">>},
        state \in {<<"I","L">>, <<"I","l">>, <<"I","L","L">>},
        zip \in {<<"0","6","2","7","0">>, <<"0","6","2","7">>, <<"0","6","2","7","0","4">>},
        trail \in {<<>>, <<" ", "\n">>, <<"\n", "x">>} }
    \cup {<<>>}

\* the five required fields other than the address, each with a valid value
OtherFields ==
    [license_plate |-> Str(<<"A","1">>), make_model |-> Str(<<"F">>), year |-> Num(2020),
     registered_name |-> Str(<<"J">>), registered_date |-> Str(<<"d">>)]

\* the values a field of an input record takes; Absent marks a missing key
Absent == [t |-> "absent"]

\* the dict with the keys of f that are not Absent
DictOf(f) == [k \in {x \in DOMAIN f : f[x] # Absent} |-> f[k]]

\* the value of required field k under presence pattern p
PatternValue(k, p) ==
    CASE p = "absent" -> Absent
      [] p = "null" -> Null
      [] OTHER -> OtherFields[k]

\* records with every presence pattern of the required fields and a few addresses
PatternRecords ==
    { DictOf([k \in DOMAIN f \cup {"registered_address"} |->
                 IF k = "registered_address" THEN a ELSE PatternValue(k, f[k])]) :
        f \in [DOMAIN OtherFields -> {"absent", "null", "value"}],
        a \in {Absent, Null, Num(5), Str(GoodAddress), Str(<<"1"," ","M",".",","," ","S">>)} }

\* records with the other required fields valid, every address text, and a
\* field outside the required list: none, a null one, one named like an output
AddressRecords ==
    { DictOf([k \in DOMAIN OtherFields \cup {"registered_address", "color", "zip"} |->
                 CASE k = "registered_address" -> Str(a)
                   [] k = "color" -> x[1]
                   [] k = "zip" -> x[2]
                   [] OTHER -> OtherFields[k]]) :
        a \in AddressTexts,
        x \in {<<Absent, Absent>>, <<Null, Absent>>, <<Str(<<"r">>), Num(9)>>} }

Records == PatternRecords \cup AddressRecords

SixNames == [i \in 1 .. Len(VALID_FIELDS) |-> Str(Chars(VALID_FIELDS[i]))]

ValidDict == Dict(DictOf([k \in DOMAIN OtherFields \cup {"registered_address"} |->
                 IF k = "registered_address" THEN Str(GoodAddress) ELSE OtherFields[k]]))

\* the lines of the exhaustive part: not JSON, JSON but not an object, and
\* one record of each outcome
FewLines ==
    { BadLine, JsonLine(Num(7)), JsonLine(Null), JsonLine(List(SixNames)),
      JsonLine(ValidDict),
      JsonLine(Dict(SetKey(SetKey(ValidDict.d, "license_plate", Str(<<"B","2">>)), "color", Null))),
      JsonLine(Dict(DelKey(ValidDict.d, "year"))),
      JsonLine(Dict(SetKey(ValidDict.d, "registered_address", Null))),
      JsonLine(Dict(SetKey(ValidDict.d, "registered_address", Str(<<"1"," ","M",".",","," ","S">>)))),
      JsonLine(Dict(SetKey(ValidDict.d, "registered_address", Num(5)))) }

RECURSIVE SeqsUpTo(_, _)
SeqsUpTo(n, S) ==
    IF n = 0 THEN {<<>>}
    ELSE LET shorter == SeqsUpTo(n - 1, S)
         IN  shorter \cup { Append(p, x) : p \in shorter, x \in S }

\* Files: every file of at most MaxLines of the few lines, and every record
\* as the only line, after an accepted line and after a rejected line.
Files ==
    SeqsUpTo(MaxLines, FewLines)
    \cup { p \o <<JsonLine(Dict(d))>> :
             p \in {<<>>, <<JsonLine(ValidDict)>>, <<JsonLine(Dict(DelKey(ValidDict.d, "year")))>>},
             d \in Records }

Init ==
    /\ file \in Files
    /\ print_lines \in BOOLEAN
    /\ pos = 0
    /\ pc = "loop"
    /\ line_num = FirstLineNum
    /\ ok_count = 0
    /\ reject_count = 0
    /\ row = Unbound
    /\ err = NoErr
    /\ out = <<>>

Next == ProcessLine \/ Summary

Spec == Init /\ [][Next]_vars

---------------------------------------------------------------------------
(* What the claims speak of, stated from the specification's words and     *)
(* independently of the operators above.                                   *)

AllIn(s, cls) == \A i \in 1 .. Len(s) : s[i] \in cls

\* The ways to read s as: a street line of letters, digits, spaces and
\* periods; a line break; a city of letters, digits and spaces; a comma and a
\* space; two uppercase letters; a space; five digits; then anything.
Readings(s) ==
    { [street_address |-> SubSeq(s, 1, a),
       city |-> SubSeq(s, a + 2, a + 1 + b),
       state |-> SubSeq(s, a + b + 4, a + b + 5),
       zip |-> SubSeq(s, a + b + 7, a + b + 11)] :
        <<a, b>> \in { x \in (1 .. Len(s)) \X (1 .. Len(s)) :
            /\ x[1] + x[2] + 11 <= Len(s)
            /\ AllIn(SubSeq(s, 1, x[1]), Lower \cup Upper \cup Digit \cup {" ", "."})
            /\ s[x[1] + 1] = "\n"
            /\ AllIn(SubSeq(s, x[1] + 2, x[1] + 1 + x[2]), Lower \cup Upper \cup Digit \cup {" "})
            /\ SubSeq(s, x[1] + x[2] + 2, x[1] + x[2] + 3) = <<",", " ">>
            /\ AllIn(SubSeq(s, x[1] + x[2] + 4, x[1] + x[2] + 5), Upper)
            /\ s[x[1] + x[2] + 6] = " "
            /\ AllIn(SubSeq(s, x[1] + x[2] + 7, x[1] + x[2] + 11), Digit) } }

\* s without its outer whitespace, each line break inside it shown as ", "
Diagnostic(s) ==
    LET inner == { i \in 1 .. Len(s) : s[i] \notin {" ", "\n", "\t", "\r"} }
        first == CHOOSE i \in inner : \A j \in inner : i <= j
        last == CHOOSE i \in inner : \A j \in inner : j <= i
        piece(i) == IF s[i] = "\n" THEN ", " ELSE s[i]
        shown[i \in (first - 1) .. last] ==
            IF i < first THEN "" ELSE shown[i - 1] \o piece(i)
    IN  IF inner = {} THEN "" ELSE shown[last]

Required == { VALID_FIELDS[i] : i \in 1 .. Len(VALID_FIELDS) }

Outputs == {"street_address", "city", "state", "zip"}

\* the first field of S in the declared order
FirstOf(S) ==
    VALID_FIELDS[CHOOSE i \in 1 .. Len(VALID_FIELDS) :
        /\ VALID_FIELDS[i] \in S
        /\ \A j \in 1 .. (i - 1) : VALID_FIELDS[j] \notin S]

IsRecord(l) == l.json /\ l.v.t = "dict"

Missing(d) == Required \ DOMAIN d

Nulls(d) == { f \in Required \cap DOMAIN d : d[f] = Null }

\* the record passes the schema and null checks
Complete(d) == Missing(d) = {} /\ Nulls(d) = {}

\* the address is a text of the two-line shape
Shaped(d) == d["registered_address"].t = "str" /\ Readings(d["registered_address"].s) # {}

\* the number a digit string shows
RECURSIVE Value(_)
Value(ds) ==
    IF ds = <<>> THEN 0
    ELSE 10 * Value(SubSeq(ds, 1, Len(ds) - 1))
         + (CHOOSE v \in 0 .. 9 : Dec(v) = <<ds[Len(ds)]>>)

\* the step reads one line of the file
Reads == pos' = pos + 1

\* the step counts the line as rejected and goes on
Rejects ==
    /\ reject_count' = reject_count + 1
    /\ ok_count' = ok_count
    /\ pc' = "loop"
    /\ Len(out') = Len(out) + 1
    /\ out'[Len(out')].kind = "ERROR"

\* the step counts the line as accepted and goes on
Accepts ==
    /\ ok_count' = ok_count + 1
    /\ reject_count' = reject_count
    /\ pc' = "loop"

---------------------------------------------------------------------------
(* The claims.                                                             *)

\* C1: no row-level error aborts the run: whatever lines the file holds, run
\* never ends with an exception escaping the loop.
C1_NoRowErrorAborts == pc # "aborted"

\* C2: after each line read exactly one of the two counters has advanced by
\* one, so accepted + rejected is the number of lines read (line_num - 1, the
\* N of "Read N rows").
C2_CountersSumToLinesRead == ok_count + reject_count = line_num - 1

\* C3: a record with all six required fields present and non-null and an
\* address of the two-line shape is accepted; the row then has no
\* registered_address, has street_address, city, state and zip equal to the
\* parts of the address, and has every other field unchanged.
C3_ValidRecordAccepted ==
    [][Reads /\ IsRecord(file[pos']) /\ Complete(file[pos'].v.d) /\ Shaped(file[pos'].v.d)
       => LET d == file[pos'].v.d
              parts == Readings(d["registered_address"].s)
          IN  /\ Accepts
              /\ row'.t = "dict"
              /\ DOMAIN row'.d = (DOMAIN d \ {"registered_address"}) \cup Outputs
              /\ \E p \in parts :
                    /\ row'.d["street_address"] = Str(p.street_address)
                    /\ row'.d["city"] = Str(p.city)
                    /\ row'.d["state"] = Str(p.state)
                    /\ row'.d["zip"] = Str(p.zip)
              /\ \A k \in DOMAIN d \ ({"registered_address"} \cup Outputs) : row'.d[k] = d[k]
              /\ print_lines =>
                    /\ Len(out') = Len(out) + 1
                    /\ out'[Len(out')].kind = "OK"
                    /\ out'[Len(out')].data = row']_vars

\* C3 happens: an accepted record whose address had text after the postal
\* code and which held a zip field of its own.
C3_Witness ==
    /\ pos >= 1
    /\ IsRecord(file[pos])
    /\ Complete(file[pos].v.d)
    /\ Shaped(file[pos].v.d)
    /\ Len(file[pos].v.d["registered_address"].s) > Len(GoodAddress)
    /\ "zip" \in DOMAIN file[pos].v.d
    /\ ok_count >= 1
    /\ row.t = "dict"
    /\ "registered_address" \notin DOMAIN row.d

\* a row as it is when it has been accepted
AcceptedShape(r) ==
    /\ r.t = "dict"
    /\ \A f \in Required \ {"registered_address"} : f \in DOMAIN r.d /\ r.d[f] # Null
    /\ "registered_address" \notin DOMAIN r.d
    /\ \A f \in Outputs : f \in DOMAIN r.d /\ r.d[f].t = "str"

\* C4: ok_count is incremented only for a row that has every required field
\* other than registered_address present and non-null, has no
\* registered_address, and has street_address, city, state and zip set.
C4_AcceptedOnlyIfChecked ==
    [][ok_count' # ok_count => ok_count' = ok_count + 1 /\ AcceptedShape(row')]_vars

\* C4 happens: two lines counted as accepted.
C4_Witness == ok_count >= 2 /\ AcceptedShape(row)

\* C5: a record missing a required field is rejected with the missing-field
\* error naming the first missing field in the declared order, whatever nulls
\* or address it holds; a key with a null value is present.
C5_FirstMissingFieldNamed ==
    [][Reads /\ IsRecord(file[pos']) /\ Missing(file[pos'].v.d) # {}
       => /\ Rejects
          /\ err' = Exc("KeyError",
                        "Missing required field: " \o FirstOf(Missing(file[pos'].v.d)))
          /\ row' = file[pos'].v]_vars

\* C5 happens: a rejected record with two fields missing, a null before the
\* first of them, and no address.
C5_Witness ==
    /\ pos >= 1
    /\ IsRecord(file[pos])
    /\ Cardinality(Missing(file[pos].v.d)) >= 2
    /\ "registered_address" \in Missing(file[pos].v.d)
    /\ "license_plate" \in Nulls(file[pos].v.d)
    /\ FirstOf(Missing(file[pos].v.d)) = "year"
    /\ err.type = "KeyError"
    /\ reject_count >= 1

\* C6: a record with all six required keys and a null required value is
\* rejected with the message "<field> cannot be Null." for the first null
\* field in the declared order, whatever its address; and a record is never
\* rejected for a null outside the required fields.
C6_FirstNullFieldNamed ==
    [][Reads /\ IsRecord(file[pos']) /\ Missing(file[pos'].v.d) = {}
       => LET d == file[pos'].v.d
          IN  IF Nulls(d) # {}
              THEN /\ Rejects
                   /\ out'[Len(out')].msg = FirstOf(Nulls(d)) \o " cannot be Null."
                   /\ row' = file[pos'].v
              ELSE \A k \in DOMAIN d : err'.arg # k \o " cannot be Null."]_vars

\* C6 happens: a rejected record with two null fields and an address that is
\* no text.
C6_Witness ==
    /\ pos >= 1
    /\ IsRecord(file[pos])
    /\ Missing(file[pos].v.d) = {}
    /\ Cardinality(Nulls(file[pos].v.d)) >= 2
    /\ file[pos].v.d["registered_address"].t = "num"
    /\ err.type = "ValueError"
    /\ reject_count >= 1

\* C6's other half happens: an accepted record with a null field outside the
\* required ones.
C6_WitnessOutside ==
    /\ pos >= 1
    /\ IsRecord(file[pos])
    /\ Missing(file[pos].v.d) = {}
    /\ "color" \in DOMAIN file[pos].v.d
    /\ file[pos].v.d["color"] = Null
    /\ ok_count >= 1
    /\ err = NoErr

\* the text the claim expects after "Unknown address format: "
Raw(a) == IF a.t = "str" THEN Diagnostic(a.s) ELSE Join(Dec(a.n))

C7_Step(types) ==
    Reads /\ IsRecord(file[pos']) /\ Complete(file[pos'].v.d)
          /\ file[pos'].v.d["registered_address"].t \in types
          /\ ~Shaped(file[pos'].v.d)
    => /\ Rejects
       /\ out'[Len(out')].msg =
             "Unknown address format: " \o Raw(file[pos'].v.d["registered_address"])

\* C7: a record that passes the schema and null checks and whose address,
\* text or number, is not of the two-line shape is rejected with the message
\* "Unknown address format: " and the raw address, trimmed, its line breaks
\* shown as ", ".
C7_BadAddressMessage == [][C7_Step({"str", "num"})]_vars

\* C7 for the addresses that are texts
C7_BadTextAddressMessage == [][C7_Step({"str"})]_vars

\* C8: the record shown after [DATA] in an error line is the record of the
\* line just read, as decoded; it is never the row an earlier line left.
C8_ErrorShowsOwnRecord ==
    [][Reads /\ Len(out') > Len(out) /\ out'[Len(out')].kind = "ERROR"
       => IF file[pos'].json
          THEN out'[Len(out')].data = file[pos'].v
          ELSE out'[Len(out')].data # row]_vars

\* C9: for a record missing a required field the message of the error line is
\* exactly "Missing required field: " and the field, nothing added.
C9_MissingFieldMessageExact ==
    [][Reads /\ IsRecord(file[pos']) /\ Missing(file[pos'].v.d) # {}
       => /\ Len(out') = Len(out) + 1
          /\ out'[Len(out')].msg =
                "Missing required field: " \o FirstOf(Missing(file[pos'].v.d))]_vars

\* C10: what is written for the k-th line carries the number k in four
\* digits, the line number advances by one per line read whatever the
\* outcome, and the summary's total is the number of lines read.
C10_LineNumbers ==
    [][/\ Reads =>
            /\ line_num' = line_num + 1
            /\ line_num' = pos' + 1
            /\ \A i \in (Len(out) + 1) .. Len(out') :
                  /\ out'[i].kind \in {"OK", "ERROR"}
                  /\ Value(out'[i].num) = pos'
                  /\ Len(out'[i].num) = PadWidth
            /\ (ok_count' # ok_count /\ print_lines) => Len(out') = Len(out) + 1
            /\ reject_count' # reject_count => Len(out') = Len(out) + 1
       /\ pc' = "done" /\ pc = "loop" =>
            /\ Len(out') = Len(out) + 2
            /\ out'[Len(out) + 1].kind = "READ"
            /\ Value(out'[Len(out) + 1].num) = Len(file)
            /\ pos = Len(file)]_vars

\* C10 happens: a finished run whose third line was rejected after an
\* accepted and a rejected line, with accepted lines printed.
C10_Witness ==
    /\ pc = "done"
    /\ print_lines
    /\ pos >= 3
    /\ ok_count >= 1
    /\ reject_count >= 2
    /\ out[1].kind = "OK"
    /\ out[3].kind = "ERROR"
    /\ out[3].num = <<"0", "0", "0", "3">>

====
